---- MODULE Spec2Model ----
(***************************************************************************)
(* The per-connection dispatcher of starx (network.handlerService): the    *)
(* handler registry filled by Register, the reader loop of Handle, the     *)
(* processor goroutine it starts, processPacket, processMessage,           *)
(* localProcess and remoteProcess, together with the packet / message /    *)
(* route codecs and the agent they call.                                    *)
(***************************************************************************)
EXTENDS Integers, Sequences, FiniteSets, TLC

(***************************************************************************)
(* Bounds of the model.                                                     *)
(***************************************************************************)
\* longest stream of protocol packets, read on packet boundaries
MaxPackets == 3
\* longest stream of Data packets, read on packet boundaries
MaxMessages == 2
\* longest stream read at arbitrary byte splits
MaxSplitPackets == 2
\* the same three bounds for the specification with fairness
MaxFairPackets == 2
MaxFairMessages == 2
MaxFairSplitPackets == 1
\* number of client connections accepted concurrently
NumConns == 2
\* most Register calls the application makes at startup
MaxRegisters == 3
MaxFairRegisters == 2

Conns == 1..NumConns

(***************************************************************************)
(* Program constants.                                                       *)
(***************************************************************************)
packetBufferSize == 256
\* len(buf) of the reader: the most bytes one conn.Read returns
ReadBufLen == 512
HeadLength == 4

Handshake == 1
HandshakeAck == 2
Heartbeat == 3
Data == 4
Kick == 5

Request == 0
Notify == 1
Response == 2
Push == 3

statusStart == 0
statusHandshake == 1
statusWorking == 2
statusClosed == 3

\* the node's configured server type (appConfig.Type)
appConfigType == "connector"

(***************************************************************************)
(* Sequence helpers.                                                        *)
(***************************************************************************)
Min(a, b) == IF a < b THEN a ELSE b

Drop(s, n) == SubSeq(s, n + 1, Len(s))

(***************************************************************************)
(* Packet codec.  A byte is a number in 0..255.                             *)
(***************************************************************************)
\* the absent packet (a nil *packet.Packet)
NilPacket == [nil |-> TRUE]

Packet(t, d) == [Type |-> t, Length |-> Len(d), Data |-> d]

\* big-endian 24-bit body length
IntToBytes(n) == << (n \div 65536) % 256, (n \div 256) % 256, n % 256 >>

BytesToInt(b) == b[1] * 65536 + b[2] * 256 + b[3]

ValidType(t) == t \in Handshake..Kick

\* Pack(p) = Type || be24(len(Data)) || Data
Pack(p) ==
  IF ~ValidType(p.Type)
  THEN [bytes |-> <<>>, err |-> "BadType"]
  ELSE [bytes |-> <<p.Type>> \o IntToBytes(Len(p.Data)) \o p.Data, err |-> ""]

\* Unpack(buf) -> (packet, remainder, err).  A body that is not complete yet
\* gives no packet, no error and buf unchanged; an error gives no remainder.
Unpack(buf) ==
  IF Len(buf) < HeadLength
  THEN [p |-> NilPacket, rest |-> <<>>, err |-> "ShortHeader"]
  ELSE IF ~ValidType(buf[1])
  THEN [p |-> NilPacket, rest |-> <<>>, err |-> "BadType"]
  ELSE LET length == BytesToInt(SubSeq(buf, 2, HeadLength))
       IN  IF Len(buf) < HeadLength + length
           THEN [p |-> NilPacket, rest |-> buf, err |-> ""]
           ELSE [p |-> [Type |-> buf[1], Length |-> length,
                        Data |-> SubSeq(buf, HeadLength + 1, HeadLength + length)],
                 rest |-> Drop(buf, HeadLength + length),
                 err |-> ""]

(***************************************************************************)
(* Message codec (compact form: flag byte, id for Request/Response, route  *)
(* code, payload) and the route dictionary and parser.                      *)
(***************************************************************************)
NilMessage == [nil |-> TRUE]

\* route code -> route string, kept as its "."-separated components
RouteDict(code) ==
  CASE code = 1 -> <<"Echo", "Say">>
    [] code = 2 -> <<"Nope", "None">>
    [] code = 3 -> <<"chat", "Room", "Join">>
    [] code = 4 -> <<"connector", "Echo", "Say">>
    [] OTHER    -> <<"bad">>

MsgHasID(t) == t \in {Request, Response}

MsgHeadLen(t) == IF MsgHasID(t) THEN 3 ELSE 2

\* message.Decode(data) -> (message, err)
MessageDecode(data) ==
  IF Len(data) < 1
  THEN [m |-> NilMessage, err |-> "Truncated"]
  ELSE LET t == data[1] \div 2
       IN  IF t \notin {Request, Notify, Response, Push}
           THEN [m |-> NilMessage, err |-> "BadMessageType"]
           ELSE IF Len(data) < MsgHeadLen(t)
           THEN [m |-> NilMessage, err |-> "Truncated"]
           ELSE [m |-> [Type  |-> t,
                        ID    |-> IF MsgHasID(t) THEN data[2] ELSE 0,
                        Route |-> RouteDict(data[MsgHeadLen(t)]),
                        Data  |-> Drop(data, MsgHeadLen(t))],
                 err |-> ""]

\* message.Encode, for building the streams a client sends
MessageEncode(t, id, code, payload) ==
  <<t * 2 + 1>> \o (IF MsgHasID(t) THEN <<id>> ELSE <<>>) \o <<code>> \o payload

NilRoute == [nil |-> TRUE]

\* route.Decode(route) -> (route, err)
RouteDecode(r) ==
  IF Len(r) = 2
  THEN [r |-> [ServerType |-> "", Service |-> r[1], Method |-> r[2]], err |-> ""]
  ELSE IF Len(r) = 3
  THEN [r |-> [ServerType |-> r[1], Service |-> r[2], Method |-> r[3]], err |-> ""]
  ELSE [r |-> NilRoute, err |-> "BadRoute"]

\* serializer.Deserialize(data, v): the payload whose first byte is 1 parses
Deserialize(data) == IF Len(data) >= 1 /\ data[1] = 1 THEN "" ELSE "BadRequest"

(***************************************************************************)
(* The byte streams clients send.  A frame is written by the peer, so it   *)
(* may carry a type byte Pack would refuse.                                 *)
(***************************************************************************)
Frame(p) == <<p.Type>> \o IntToBytes(Len(p.Data)) \o p.Data

\* the bytes of a stream: its frames one after the other
RECURSIVE Frames(_)
Frames(ps) ==
  IF ps = <<>> THEN <<>>
  ELSE IF Len(ps) = 1 THEN Frame(ps[1])
  ELSE LET h == Len(ps) \div 2
       IN  Frames(SubSeq(ps, 1, h)) \o Frames(SubSeq(ps, h + 1, Len(ps)))

\* the byte offsets at which a packet of the stream ends
RECURSIVE Boundaries(_)
Boundaries(ps) ==
  IF ps = <<>> THEN {}
  ELSE {Len(Frames(ps))} \cup Boundaries(SubSeq(ps, 1, Len(ps) - 1))

SeqsUpTo(S, n) == UNION {[1..k -> S] : k \in 0..n}

ReqEchoSay    == Packet(Data, MessageEncode(Request, 7, 1, <<1>>))
ReqEchoBad    == Packet(Data, MessageEncode(Request, 9, 1, <<0>>))
ReqNopeNone   == Packet(Data, MessageEncode(Request, 11, 2, <<1>>))
ReqChatJoin   == Packet(Data, MessageEncode(Request, 3, 3, <<1>>))
ReqBadRoute   == Packet(Data, MessageEncode(Request, 5, 9, <<1>>))
NotifyEchoSay == Packet(Data, MessageEncode(Notify, 0, 4, <<1>>))
NotifyNope    == Packet(Data, MessageEncode(Notify, 0, 2, <<1>>))
RespMessage   == Packet(Data, MessageEncode(Response, 7, 1, <<1>>))
PushMessage   == Packet(Data, MessageEncode(Push, 0, 1, <<1>>))
EmptyData     == Packet(Data, <<>>)
BadTypeFrame  == [Type |-> 6, Length |-> 0, Data |-> <<>>]

\* protocol packets of the streams read on packet boundaries
Catalogue ==
  { Packet(Handshake, <<>>), Packet(HandshakeAck, <<>>), Packet(Heartbeat, <<>>),
    Packet(Kick, <<>>), ReqEchoSay, ReqChatJoin }

\* Data packets of the streams read on packet boundaries
MessageCatalogue ==
  { EmptyData, ReqEchoSay, ReqEchoBad, ReqNopeNone, ReqChatJoin, ReqBadRoute,
    NotifyEchoSay, NotifyNope, RespMessage, PushMessage }

\* frames of the streams read at arbitrary byte splits
SplitCatalogue == { Packet(Heartbeat, <<>>), Packet(Handshake, <<1, 2>>), BadTypeFrame }

\* a stream of heartbeats longer than packetChan can hold
FloodStream == [i \in 1..(packetBufferSize + 2) |-> Packet(Heartbeat, <<>>)]

\* the offsets at which the reads of a stream end when every read fills buf
FullReads(n) == {k * ReadBufLen : k \in 1..(n \div ReadBufLen)} \cup {n}

\* packets of the streams of concurrently served connections
PeerCatalogue == { Packet(Heartbeat, <<>>), ReqEchoSay }

\* the components an application registers: the name of the receiver's type
\* and its suitable handler methods, method name -> [raw]
Component(n, ms, r) == [name |-> n, methods |-> [m \in ms |-> [raw |-> r]]]

Components ==
  { Component("Echo", {"Say"}, FALSE), Component("Echo", {"Say"}, TRUE),
    Component("Room", {"Join"}, TRUE), Component("echo", {"Say"}, FALSE),
    Component("", {"Say"}, FALSE), Component("Idle", {}, FALSE) }

(***************************************************************************)
(* State.                                                                   *)
(***************************************************************************)
VARIABLES
  stream,      \* [c] the packets the client of c sends (fixed)
  cuts,        \* [c] the byte offsets at which a conn.Read of c may end (fixed)
  rdpos,       \* [c] bytes of the stream conn.Read has returned so far
  rpc,         \* [c] reader: "absent" "idle" "read" "decode" "signal" "agentclose" "done"
  tmp,         \* [c] the accumulator tmp of Handle
  packetChan,  \* [c] the buffered channel of unhandled packets
  chanClosed,  \* [c] close(packetChan) was executed
  endChan,     \* [c] number of values buffered in endChan
  ppc,         \* [c] processor: "none" "select" "process" "handler" "call" "done"
  cur,         \* [c] the packet processPacket is working on
  status,      \* [c] agent.status
  agents,      \* the net service registry: connections whose agent is registered
  removals,    \* [c] how often close() removed the agent from the registry
  closeCalls,  \* [c] how often agent.close() was called
  lastID,      \* [c] session.LastID
  hbCalls,     \* [c] number of "go a.heartbeat()" started
  outbox,      \* [c] what was written with a.Send
  enq,         \* [c] log: packets sent on packetChan
  handled,     \* [c] log: packets passed to processPacket
  events,      \* [c] log: what processMessage did
  active,      \* [c] handler invocations (local call or cluster Call) in progress
  serviceMap,  \* hs.serviceMap: service name -> method name -> [raw]
  pending,     \* the components the application still passes to Register
  registered,  \* log: the type name and the result of every Register call
  errAt,       \* [c] log: bytes read when the first framing error was met, or -1
  crashed      \* the process died of an unrecovered panic

vars == << stream, cuts, rdpos, rpc, tmp, packetChan, chanClosed, endChan, ppc, cur,
           status, agents, removals, closeCalls, lastID, hbCalls, outbox, enq,
           handled, events, active, serviceMap, pending, registered, errAt,
           crashed >>

readerVars == << rdpos, rpc, tmp, chanClosed >>

procVars == << ppc, cur, lastID, hbCalls, outbox, handled, events, active >>

agentVars == << status, agents, removals, closeCalls >>

\* fixed while connections are served
inputVars == << stream, cuts, serviceMap, pending, registered >>

wire(c) == Frames(stream[c])

\* the registry once startup has registered the component Echo, whose method
\* Say takes a pointer to a struct (raw = false)
RegisteredServices == [s \in {"Echo"} |-> [m \in {"Say"} |-> [raw |-> FALSE]]]

\* the registry newHandlerService makes: an empty map
NoServices == [s \in {} |-> [m \in {} |-> [raw |-> FALSE]]]

(***************************************************************************)
(* Initial states: no connection accepted yet.  One client sends a stream  *)
(* that arrives packet by packet (protocol packets, or Data packets), or a *)
(* stream that arrives split at arbitrary bytes; or one client floods the  *)
(* server with heartbeats read a full buffer at a time; or every client    *)
(* sends one packet; or the application is still to register its           *)
(* components before one client is served.                                  *)
(***************************************************************************)
\* connection 1 sends s and a read of it may end at the offsets in k
OneClient(s, k) ==
  /\ stream = [c \in Conns |-> IF c = 1 THEN s ELSE <<>>]
  /\ cuts = [c \in Conns |-> IF c = 1 THEN k ELSE {}]
  /\ rpc = [c \in Conns |-> IF c = 1 THEN "idle" ELSE "absent"]

\* startup is over: it has registered Echo
Started == serviceMap = RegisteredServices /\ pending = <<>>

\* startup is still to register up to n components; then connection 1 sends
\* a request for Echo.Say
Startup(n) ==
  /\ serviceMap = NoServices
  /\ pending \in SeqsUpTo(Components, n)
  /\ OneClient(<<ReqEchoSay>>, Boundaries(<<ReqEchoSay>>))

SingleInput(np, nm, ns) ==
  /\ Started
  /\ \/ \E s \in SeqsUpTo(Catalogue, np) : OneClient(s, Boundaries(s))
     \/ \E s \in SeqsUpTo(MessageCatalogue, nm) : OneClient(s, Boundaries(s))
     \/ \E s \in SeqsUpTo(SplitCatalogue, ns) : OneClient(s, 1..Len(Frames(s)))

InitInput ==
  \/ SingleInput(MaxPackets, MaxMessages, MaxSplitPackets)
  \/ Started /\ OneClient(FloodStream, FullReads(Len(Frames(FloodStream))))
  \/ /\ Started
     /\ \E f \in [Conns -> PeerCatalogue] :
          /\ stream = [c \in Conns |-> <<f[c]>>]
          /\ cuts = [c \in Conns |-> Boundaries(<<f[c]>>)]
          /\ rpc = [c \in Conns |-> "idle"]
  \/ Startup(MaxRegisters)

InitRest ==
  /\ rdpos = [c \in Conns |-> 0]
  /\ tmp = [c \in Conns |-> <<>>]
  /\ packetChan = [c \in Conns |-> <<>>]
  /\ chanClosed = [c \in Conns |-> FALSE]
  /\ endChan = [c \in Conns |-> 0]
  /\ ppc = [c \in Conns |-> "none"]
  /\ cur = [c \in Conns |-> NilPacket]
  /\ status = [c \in Conns |-> statusStart]
  /\ agents = {}
  /\ removals = [c \in Conns |-> 0]
  /\ closeCalls = [c \in Conns |-> 0]
  /\ lastID = [c \in Conns |-> 0]
  /\ hbCalls = [c \in Conns |-> 0]
  /\ outbox = [c \in Conns |-> <<>>]
  /\ enq = [c \in Conns |-> <<>>]
  /\ handled = [c \in Conns |-> <<>>]
  /\ events = [c \in Conns |-> <<>>]
  /\ active = [c \in Conns |-> 0]
  /\ registered = <<>>
  /\ errAt = [c \in Conns |-> -1]
  /\ crashed = FALSE

Init == InitInput /\ InitRest

\* the initial states of the specification with fairness
FairInit ==
  /\ \/ SingleInput(MaxFairPackets, MaxFairMessages, MaxFairSplitPackets)
     \/ Startup(MaxFairRegisters)
  /\ InitRest

(***************************************************************************)
(* Register: the handler registry.                                          *)
(***************************************************************************)
UpperCase ==
  { "A", "B", "C", "D", "E", "F", "G", "H", "I", "J", "K", "L", "M",
    "N", "O", "P", "Q", "R", "S", "T", "U", "V", "W", "X", "Y", "Z" }

\* isExported(name): the first letter is upper case
isExported(name) == name # "" /\ SubSeq(name, 1, 1) \in UpperCase

\* suitableHandlerMethods(typ): the handler methods of the receiver's type
suitableHandlerMethods(rcvr) == rcvr.methods

\* (a registry that finds no name present)
NeverPresent(sm, sname) == FALSE

\* _, present := hs.serviceMap[sname]
Present(sm, sname) == sname \in DOMAIN sm

\* the error Register(rcvr) returns, "" for nil
RegisterError(sm, rcvr) ==
  IF rcvr.name = "" THEN "no service name"
  ELSE IF ~isExported(rcvr.name) THEN "not exported"
  ELSE IF Present(sm, rcvr.name) THEN "already defined"
  ELSE IF DOMAIN suitableHandlerMethods(rcvr) = {} THEN "no suitable methods"
  ELSE ""

\* hs.serviceMap[s.name] = s
Install(sm, rcvr) ==
  [s \in DOMAIN sm \cup {rcvr.name} |->
     IF s = rcvr.name THEN suitableHandlerMethods(rcvr) ELSE sm[s]]

\* the application calls Register with the next of its components
Register ==
  /\ ~crashed
  /\ pending # <<>>
  /\ LET rcvr == Head(pending)
         err == RegisterError(serviceMap, rcvr)
     IN  /\ serviceMap' = IF err = "" THEN Install(serviceMap, rcvr) ELSE serviceMap
         /\ registered' = Append(registered, [name |-> rcvr.name, err |-> err])
  /\ pending' = Tail(pending)
  /\ UNCHANGED << stream, cuts, errAt, readerVars, packetChan, endChan, procVars,
                  agentVars, enq, crashed >>

(***************************************************************************)
(* Agent and net service.                                                   *)
(***************************************************************************)
\* agent.close() of connection c, called when its status is st
AgentClose(c, st) ==
  /\ status' = [status EXCEPT ![c] = statusClosed]
  /\ closeCalls' = [closeCalls EXCEPT ![c] = @ + 1]
  /\ IF st = statusClosed
     THEN UNCHANGED << agents, removals >>
     ELSE /\ agents' = agents \ {c}
          /\ removals' = [removals EXCEPT ![c] = @ + 1]

(***************************************************************************)
(* packetChan: a buffered channel of capacity packetBufferSize.             *)
(***************************************************************************)
\* (a channel that never blocks its sender)
ChanNeverFull(q) == FALSE

\* a send on the channel blocks while it holds packetBufferSize values
ChanFull(q) == Len(q) >= packetBufferSize

\* (a receive that takes the value sent last)
ChanRecvLast(q) == [p |-> q[Len(q)], rest |-> SubSeq(q, 1, Len(q) - 1)]

\* a receive takes the value that was sent first
ChanRecv(q) == [p |-> Head(q), rest |-> Tail(q)]

(***************************************************************************)
(* Reader: the body of Handle.                                              *)
(***************************************************************************)
\* where the reader continues once an iteration of the inner loop is over
AfterLoopTest(buf) == IF Len(buf) >= HeadLength THEN "decode" ELSE "read"

\* listener.Accept and "go Handle(conn)", once startup is over: channels made,
\* processor started, agent created and registered
Accept(c) ==
  /\ ~crashed
  /\ pending = <<>>
  /\ rpc[c] = "idle"
  /\ rpc' = [rpc EXCEPT ![c] = "read"]
  /\ ppc' = [ppc EXCEPT ![c] = "select"]
  /\ status' = [status EXCEPT ![c] = statusStart]
  /\ agents' = agents \cup {c}
  /\ UNCHANGED << inputVars, errAt, rdpos, tmp, packetChan, chanClosed, endChan, cur,
                  removals, closeCalls, lastID, hbCalls, outbox, enq, handled,
                  events, active, crashed >>

\* conn.Read returns n bytes, appended to tmp
ReaderRead(c) ==
  /\ ~crashed
  /\ rpc[c] = "read"
  /\ \E n \in 1..Min(ReadBufLen, Len(wire(c)) - rdpos[c]) :
       /\ rdpos[c] + n \in cuts[c]
       /\ rdpos' = [rdpos EXCEPT ![c] = @ + n]
       /\ LET buf == tmp[c] \o SubSeq(wire(c), rdpos[c] + 1, rdpos[c] + n)
          IN  /\ tmp' = [tmp EXCEPT ![c] = buf]
              /\ rpc' = [rpc EXCEPT ![c] = AfterLoopTest(buf)]
  /\ UNCHANGED << inputVars, errAt, packetChan, chanClosed, endChan, procVars, agentVars,
                  enq, crashed >>

\* conn.Read returns an error or EOF: close(packetChan), which panics when the
\* channel is closed already
ReaderReadError(c) ==
  /\ ~crashed
  /\ rpc[c] = "read"
  /\ IF chanClosed[c]
     THEN crashed' = TRUE /\ UNCHANGED << chanClosed, rpc >>
     ELSE /\ chanClosed' = [chanClosed EXCEPT ![c] = TRUE]
          /\ rpc' = [rpc EXCEPT ![c] = "signal"]
          /\ UNCHANGED crashed
  /\ UNCHANGED << inputVars, errAt, rdpos, tmp, packetChan, endChan, procVars, agentVars,
                  enq >>

\* (a reader that leaves without the end signal)
ReaderSignalLost(c) ==
  /\ ~crashed
  /\ rpc[c] = "signal"
  /\ rpc' = [rpc EXCEPT ![c] = "agentclose"]
  /\ UNCHANGED << inputVars, errAt, rdpos, tmp, packetChan, chanClosed, endChan, procVars,
                  agentVars, enq, crashed >>

\* endChan <- true (never blocks: capacity 1, sent once)
ReaderSignal(c) ==
  /\ ~crashed
  /\ rpc[c] = "signal"
  /\ endChan[c] < 1
  /\ endChan' = [endChan EXCEPT ![c] = @ + 1]
  /\ rpc' = [rpc EXCEPT ![c] = "agentclose"]
  /\ UNCHANGED << inputVars, errAt, rdpos, tmp, packetChan, chanClosed, procVars, agentVars,
                  enq, crashed >>

\* (a reader that closes the agent and goes on with its loop)
ReaderCloseNoBreak(c) ==
  /\ ~crashed
  /\ rpc[c] = "agentclose"
  /\ AgentClose(c, status[c])
  /\ rpc' = [rpc EXCEPT ![c] = "read"]
  /\ UNCHANGED << inputVars, errAt, rdpos, tmp, packetChan, chanClosed, endChan, procVars,
                  enq, crashed >>

\* agent.close(); break; the deferred conn.Close()
ReaderClose(c) ==
  /\ ~crashed
  /\ rpc[c] = "agentclose"
  /\ AgentClose(c, status[c])
  /\ rpc' = [rpc EXCEPT ![c] = "done"]
  /\ UNCHANGED << inputVars, errAt, rdpos, tmp, packetChan, chanClosed, endChan, procVars,
                  enq, crashed >>

\* packet.Unpack fails: agent.close() and leave the inner loop
ReaderUnpackError(c) ==
  /\ ~crashed
  /\ rpc[c] = "decode"
  /\ LET u == Unpack(tmp[c])
     IN  /\ u.err # ""
         /\ tmp' = [tmp EXCEPT ![c] = u.rest]
  /\ AgentClose(c, status[c])
  /\ rpc' = [rpc EXCEPT ![c] = "read"]
  /\ errAt' = [errAt EXCEPT ![c] = IF @ < 0 THEN rdpos[c] ELSE @]
  /\ UNCHANGED << inputVars, rdpos, packetChan, chanClosed, endChan, procVars,
                  enq, crashed >>

\* packet.Unpack returns without error: its packet (absent or not) is sent on
\* packetChan, which blocks while the channel is full and panics when the
\* channel is closed
ReaderEnqueue(c) ==
  /\ ~crashed
  /\ rpc[c] = "decode"
  /\ LET u == Unpack(tmp[c])
     IN  /\ u.err = ""
         /\ tmp' = [tmp EXCEPT ![c] = u.rest]
         /\ IF chanClosed[c]
            THEN crashed' = TRUE /\ UNCHANGED << packetChan, enq, rpc >>
            ELSE /\ ~ChanFull(packetChan[c])
                 /\ packetChan' = [packetChan EXCEPT ![c] = Append(@, u.p)]
                 /\ enq' = [enq EXCEPT ![c] = Append(@, u.p)]
                 /\ rpc' = [rpc EXCEPT ![c] = AfterLoopTest(u.rest)]
                 /\ UNCHANGED crashed
  /\ UNCHANGED << inputVars, errAt, rdpos, chanClosed, endChan, procVars, agentVars >>

(***************************************************************************)
(* processMessage, localProcess, remoteProcess as functions of the message.*)
(***************************************************************************)
\* (a switch that leaves session.LastID alone on a Notify)
NewLastIDOfRequests(old, m) == IF m.Type = Request THEN m.ID ELSE old

\* session.LastID after the switch on msg.Type
NewLastID(old, m) ==
  IF m.Type = Request THEN m.ID
  ELSE IF m.Type = Notify THEN 0
  ELSE old

\* localProcess up to the handler call: what it decides
LocalProcess(sm, r, m) ==
  IF r.Service \notin DOMAIN sm THEN "notfound"
  ELSE IF r.Method \notin DOMAIN sm[r.Service] THEN "notfound"
  ELSE IF ~sm[r.Service][r.Method].raw /\ Deserialize(m.Data) # "" THEN "badrequest"
  ELSE "invoke"

\* (a route whose server type is left as the client wrote it)
ServerTypeKept(r) == r.ServerType

\* r.ServerType after the default is filled in
ServerTypeOf(r) == IF r.ServerType = "" THEN appConfigType ELSE r.ServerType

\* processMessage: "reject" "badroute" "notfound" "badrequest" "invoke" "call"
Dispatch(sm, m) ==
  IF m.Type \notin {Request, Notify} THEN "reject"
  ELSE LET d == RouteDecode(m.Route)
       IN  IF d.err # "" THEN "badroute"
           ELSE IF ServerTypeOf(d.r) = appConfigType
                THEN LocalProcess(sm, d.r, m)
                ELSE "call"

Event(k, m) == [kind |-> k, type |-> m.Type, id |-> m.ID, route |-> m.Route]

\* (a processMessage without the deferred recover())
NoRecover == FALSE

\* the deferred recover() of processMessage catches a handler's panic
Recovers == TRUE

\* the body of the handshake reply: {"code":200,"sys":{"heartbeat":h}}
HandshakeReply == <<200>>

(***************************************************************************)
(* Processor: the goroutine started by Handle, and processPacket.           *)
(***************************************************************************)
\* case p := <-packetChan, p # nil: processPacket(p.agent, p.packet) is entered
ProcRecv(c) ==
  /\ ~crashed
  /\ ppc[c] = "select"
  /\ packetChan[c] # <<>>
  /\ packetChan' = [packetChan EXCEPT ![c] = ChanRecv(@).rest]
  /\ cur' = [cur EXCEPT ![c] = ChanRecv(packetChan[c]).p]
  /\ handled' = [handled EXCEPT ![c] = Append(@, ChanRecv(packetChan[c]).p)]
  /\ ppc' = [ppc EXCEPT ![c] = "process"]
  /\ UNCHANGED << inputVars, errAt, readerVars, endChan, agentVars, lastID, hbCalls,
                  outbox, enq, events, active, crashed >>

\* case <-endChan: break loop
ProcEnd(c) ==
  /\ ~crashed
  /\ ppc[c] = "select"
  /\ endChan[c] > 0
  /\ endChan' = [endChan EXCEPT ![c] = @ - 1]
  /\ ppc' = [ppc EXCEPT ![c] = "done"]
  /\ UNCHANGED << inputVars, errAt, readerVars, packetChan, agentVars, cur, lastID,
                  hbCalls, outbox, enq, handled, events, active, crashed >>

\* switch p.Type on an absent packet: nil pointer dereference, nothing recovers
ProcNilPanic(c) ==
  /\ ~crashed
  /\ ppc[c] = "process"
  /\ cur[c] = NilPacket
  /\ crashed' = TRUE
  /\ UNCHANGED << inputVars, errAt, readerVars, packetChan, endChan, agentVars, procVars,
                  enq >>

\* case packet.Handshake
ProcHandshake(c) ==
  /\ ~crashed
  /\ ppc[c] = "process"
  /\ cur[c] # NilPacket
  /\ cur[c].Type = Handshake
  /\ LET rp == Pack(Packet(Handshake, HandshakeReply))
     IN  \E sendOk \in BOOLEAN :
           IF rp.err = "" /\ sendOk
           THEN /\ status' = [status EXCEPT ![c] = statusHandshake]
                /\ outbox' = [outbox EXCEPT ![c] = Append(@, rp.bytes)]
                /\ UNCHANGED << agents, removals, closeCalls >>
           ELSE /\ AgentClose(c, statusHandshake)
                /\ UNCHANGED outbox
  /\ ppc' = [ppc EXCEPT ![c] = "select"]
  /\ UNCHANGED << inputVars, errAt, readerVars, packetChan, endChan, cur, lastID, hbCalls,
                  enq, handled, events, active, crashed >>

\* case packet.HandshakeAck
ProcHandshakeAck(c) ==
  /\ ~crashed
  /\ ppc[c] = "process"
  /\ cur[c] # NilPacket
  /\ cur[c].Type = HandshakeAck
  /\ status' = [status EXCEPT ![c] = statusWorking]
  /\ ppc' = [ppc EXCEPT ![c] = "select"]
  /\ UNCHANGED << inputVars, errAt, readerVars, packetChan, endChan, agents, removals,
                  closeCalls, cur, lastID, hbCalls, outbox, enq, handled, events,
                  active, crashed >>

\* case packet.Heartbeat: go a.heartbeat()
ProcHeartbeat(c) ==
  /\ ~crashed
  /\ ppc[c] = "process"
  /\ cur[c] # NilPacket
  /\ cur[c].Type = Heartbeat
  /\ hbCalls' = [hbCalls EXCEPT ![c] = @ + 1]
  /\ ppc' = [ppc EXCEPT ![c] = "select"]
  /\ UNCHANGED << inputVars, errAt, readerVars, packetChan, endChan, agentVars, cur,
                  lastID, outbox, enq, handled, events, active, crashed >>

\* default: invalid packet type, a.close()
ProcInvalid(c) ==
  /\ ~crashed
  /\ ppc[c] = "process"
  /\ cur[c] # NilPacket
  /\ cur[c].Type \notin {Handshake, HandshakeAck, Data, Heartbeat}
  /\ AgentClose(c, status[c])
  /\ ppc' = [ppc EXCEPT ![c] = "select"]
  /\ UNCHANGED << inputVars, errAt, readerVars, packetChan, endChan, cur, lastID, hbCalls,
                  outbox, enq, handled, events, active, crashed >>

\* case packet.Data, message.Decode fails: return
ProcDataUndecoded(c) ==
  /\ ~crashed
  /\ ppc[c] = "process"
  /\ cur[c] # NilPacket
  /\ cur[c].Type = Data
  /\ MessageDecode(cur[c].Data).err # ""
  /\ ppc' = [ppc EXCEPT ![c] = "select"]
  /\ errAt' = [errAt EXCEPT ![c] =
                 IF @ < 0 /\ MessageDecode(cur[c].Data).err = "Truncated"
                 THEN rdpos[c] ELSE @]
  /\ UNCHANGED << inputVars, readerVars, packetChan, endChan, agentVars, cur,
                  lastID, hbCalls, outbox, enq, handled, events, active, crashed >>

\* case packet.Data, processMessage returns without calling a handler or the
\* cluster; then fallthrough to go a.heartbeat()
ProcDataDropped(c) ==
  /\ ~crashed
  /\ ppc[c] = "process"
  /\ cur[c] # NilPacket
  /\ cur[c].Type = Data
  /\ LET d == MessageDecode(cur[c].Data)
     IN  /\ d.err = ""
         /\ Dispatch(serviceMap, d.m) \in {"reject", "badroute", "notfound", "badrequest"}
         /\ lastID' = [lastID EXCEPT ![c] = NewLastID(@, d.m)]
         /\ events' = [events EXCEPT ![c] = Append(@, Event(Dispatch(serviceMap, d.m), d.m))]
  /\ hbCalls' = [hbCalls EXCEPT ![c] = @ + 1]
  /\ ppc' = [ppc EXCEPT ![c] = "select"]
  /\ UNCHANGED << inputVars, errAt, readerVars, packetChan, endChan, agentVars, cur,
                  outbox, enq, handled, active, crashed >>

\* case packet.Data, localProcess calls the handler method (m.method.Func.Call)
ProcDataInvoke(c) ==
  /\ ~crashed
  /\ ppc[c] = "process"
  /\ cur[c] # NilPacket
  /\ cur[c].Type = Data
  /\ LET d == MessageDecode(cur[c].Data)
     IN  /\ d.err = ""
         /\ Dispatch(serviceMap, d.m) = "invoke"
         /\ lastID' = [lastID EXCEPT ![c] = NewLastID(@, d.m)]
         /\ events' = [events EXCEPT ![c] = Append(@, Event("invoke", d.m))]
  /\ active' = [active EXCEPT ![c] = @ + 1]
  /\ ppc' = [ppc EXCEPT ![c] = "handler"]
  /\ UNCHANGED << inputVars, errAt, readerVars, packetChan, endChan, agentVars, cur,
                  hbCalls, outbox, enq, handled, crashed >>

\* the handler returns nil, returns an error (logged) or panics (recovered and
\* logged by processMessage); then fallthrough to go a.heartbeat()
HandlerReturn(c) ==
  /\ ~crashed
  /\ ppc[c] = "handler"
  /\ \E outcome \in {"ok", "error", "panic"} :
       /\ events' = [events EXCEPT ![c] =
                       Append(@, Event(outcome, MessageDecode(cur[c].Data).m))]
       /\ active' = [active EXCEPT ![c] = @ - 1]
       /\ IF outcome = "panic" /\ ~Recovers
          THEN /\ crashed' = TRUE
               /\ UNCHANGED << hbCalls, ppc >>
          ELSE /\ hbCalls' = [hbCalls EXCEPT ![c] = @ + 1]
               /\ ppc' = [ppc EXCEPT ![c] = "select"]
               /\ UNCHANGED crashed
  /\ UNCHANGED << inputVars, errAt, readerVars, packetChan, endChan, agentVars, cur,
                  lastID, outbox, enq, handled >>

\* case packet.Data, remoteProcess: cluster.Call(rpc.Sys, route, session, msg.Data)
ProcDataCall(c) ==
  /\ ~crashed
  /\ ppc[c] = "process"
  /\ cur[c] # NilPacket
  /\ cur[c].Type = Data
  /\ LET d == MessageDecode(cur[c].Data)
     IN  /\ d.err = ""
         /\ Dispatch(serviceMap, d.m) = "call"
         /\ lastID' = [lastID EXCEPT ![c] = NewLastID(@, d.m)]
         /\ events' = [events EXCEPT ![c] = Append(@, Event("call", d.m))]
  /\ active' = [active EXCEPT ![c] = @ + 1]
  /\ ppc' = [ppc EXCEPT ![c] = "call"]
  /\ UNCHANGED << inputVars, errAt, readerVars, packetChan, endChan, agentVars, cur,
                  hbCalls, outbox, enq, handled, crashed >>

\* cluster.Call returns a reply (discarded) or an error (logged); then
\* fallthrough to go a.heartbeat()
CallReturn(c) ==
  /\ ~crashed
  /\ ppc[c] = "call"
  /\ \E outcome \in {"reply", "callerror"} :
       events' = [events EXCEPT ![c] =
                    Append(@, Event(outcome, MessageDecode(cur[c].Data).m))]
  /\ active' = [active EXCEPT ![c] = @ - 1]
  /\ hbCalls' = [hbCalls EXCEPT ![c] = @ + 1]
  /\ ppc' = [ppc EXCEPT ![c] = "select"]
  /\ UNCHANGED << inputVars, errAt, readerVars, packetChan, endChan, agentVars, cur,
                  lastID, outbox, enq, handled, crashed >>

Serve(c) ==
    \/ Accept(c)
    \/ ReaderRead(c)
    \/ ReaderReadError(c)
    \/ ReaderSignal(c)
    \/ ReaderClose(c)
    \/ ReaderUnpackError(c)
    \/ ReaderEnqueue(c)
    \/ ProcRecv(c)
    \/ ProcEnd(c)
    \/ ProcNilPanic(c)
    \/ ProcHandshake(c)
    \/ ProcHandshakeAck(c)
    \/ ProcHeartbeat(c)
    \/ ProcInvalid(c)
    \/ ProcDataUndecoded(c)
    \/ ProcDataDropped(c)
    \/ ProcDataInvoke(c)
    \/ HandlerReturn(c)
    \/ ProcDataCall(c)
    \/ CallReturn(c)

Next == Register \/ \E c \in Conns : Serve(c)

Spec == Init /\ [][Next]_vars

(***************************************************************************)
(* Properties.                                                              *)
(***************************************************************************)
\* the subsequence of events whose kind is in ks
EventsOfKind(es, ks) == SelectSeq(es, LAMBDA e : e.kind \in ks)

\* the packets processPacket has finished, or has taken past the dispatch
Dispatched(c) ==
  IF ppc[c] = "process" THEN SubSeq(handled[c], 1, Len(handled[c]) - 1) ELSE handled[c]

\* what processMessage decides for packet p: "none" when it is not called
DispatchOf(sm, p) ==
  IF p = NilPacket THEN "none"
  ELSE IF p.Type # Data THEN "none"
  ELSE IF MessageDecode(p.Data).err # "" THEN "none"
  ELSE Dispatch(sm, MessageDecode(p.Data).m)

\* the handler invocations and cluster calls a sequence of packets asks for
Invocations(sm, ps) ==
  LET inv == SelectSeq(ps, LAMBDA p : DispatchOf(sm, p) \in {"invoke", "call"})
  IN  [i \in 1..Len(inv) |-> Event(DispatchOf(sm, inv[i]), MessageDecode(inv[i].Data).m)]

\* C1: per-session ordering: the packets of a connection are passed to
\* processPacket in the order the reader sent them on packetChan, the handler
\* invocations happen in the order of their packets, and no two invocations for
\* the same connection are in progress at once.
C1_PerSessionOrdering ==
  \A c \in Conns :
    /\ handled[c] \o packetChan[c] = enq[c]
    /\ EventsOfKind(events[c], {"invoke", "call"}) = Invocations(serviceMap, Dispatched(c))
    /\ active[c] <= 1

C1_Witness ==
  \E c \in Conns :
    /\ Len(EventsOfKind(events[c], {"invoke", "call"})) >= 2
    /\ events[c][1] # events[c][Len(events[c]) - 1]
    /\ Len(handled[c]) = MaxPackets
    /\ ppc[c] = "select"

\* the i-th packet Unpack yields when the whole stream of c is in the buffer
PacketAt(c, i) ==
  Unpack(Drop(wire(c), Len(Frames(SubSeq(stream[c], 1, i - 1))))).p

WellFormed(ps) == \A i \in DOMAIN ps : ValidType(ps[i].Type)

ReaderIdle(c) == rpc[c] \in {"read", "signal", "agentclose", "done"}

\* C2: framing is split-invariant: for a stream of well-formed packets, however
\* it is split across reads, the reader sends on packetChan only packets of the
\* sequence one read of the whole stream yields, in order, and all of them once
\* the whole stream has been read.
C2_SplitInvariant ==
  \A c \in Conns :
    WellFormed(stream[c]) =>
      /\ Len(enq[c]) <= Len(stream[c])
      /\ \A i \in DOMAIN enq[c] : enq[c][i] = PacketAt(c, i)
      /\ (rdpos[c] = Len(wire(c)) /\ ReaderIdle(c)) => Len(enq[c]) = Len(stream[c])

\* processPacket of connection c is about to switch on a packet of type t
Processing(c, t) == ppc[c] = "process" /\ cur[c] # NilPacket /\ cur[c].Type = t

\* C3: a Data packet is processed only in the working state: handled in any
\* other state it is dropped, so that session.LastID stays, processMessage logs
\* nothing and neither a handler nor a cluster Call is started.
C3_DataOnlyWhenWorking ==
  [][\A c \in Conns :
       (Processing(c, Data) /\ status[c] # statusWorking) =>
         /\ lastID'[c] = lastID[c]
         /\ events'[c] = events[c]
         /\ active'[c] = active[c]]_vars

\* C4: closed is terminal: once the status of an agent is closed, no step
\* changes it.
C4_ClosedTerminal ==
  [][\A c \in Conns : status[c] = statusClosed => status'[c] = statusClosed]_vars

\* C5: the status follows the handshake protocol: an agent starts in start,
\* becomes handshake only by processing a Handshake packet, and becomes working
\* only by processing a HandshakeAck packet while it is in handshake.
C5_HandshakeProtocol ==
  [][\A c \in Conns :
       /\ (rpc[c] = "idle" /\ rpc'[c] # "idle") => status'[c] = statusStart
       /\ (status'[c] = statusHandshake /\ status[c] # statusHandshake)
            => Processing(c, Handshake)
       /\ (status'[c] = statusWorking /\ status[c] # statusWorking)
            => (Processing(c, HandshakeAck) /\ status[c] = statusHandshake)]_vars

\* C6: close is idempotent: over all close() calls of the reader and of the
\* processor, an agent is removed from the net service registry at most once.
C6_CloseOnce == \A c \in Conns : removals[c] <= 1

\* the reader of c holds a decoded packet it cannot send: packetChan is full
ReaderBlocked(c) ==
  /\ rpc[c] = "decode"
  /\ Unpack(tmp[c]).err = ""
  /\ Len(packetChan[c]) = packetBufferSize

\* C7: backpressure: packetChan never holds more than packetBufferSize packets,
\* and a reader that finds it full neither reads on nor drops its packet: it
\* stays where it is until the processor has taken a packet.
C7_Backpressure ==
  /\ [](\A c \in Conns : Len(packetChan[c]) <= packetBufferSize)
  /\ [][\A c \in Conns :
          ReaderBlocked(c) =>
            /\ rpc'[c] = rpc[c]
            /\ tmp'[c] = tmp[c]
            /\ rdpos'[c] = rdpos[c]
            /\ enq'[c] = enq[c]
            /\ (packetChan'[c] = packetChan[c] \/ packetChan'[c] = Tail(packetChan[c]))]_vars

C7_Witness ==
  \E c \in Conns :
    /\ ReaderBlocked(c)
    /\ \A i \in DOMAIN packetChan[c] : packetChan[c][i] = Packet(Heartbeat, <<>>)
    /\ Unpack(tmp[c]).p = Packet(Heartbeat, <<>>)

(***************************************************************************)
(* Scheduling: a goroutine that can take a step takes one; a select whose  *)
(* endChan case is ready chooses it eventually; handlers and cluster calls *)
(* return.                                                                  *)
(***************************************************************************)
Fairness ==
  \A c \in Conns :
    /\ WF_vars(ReaderSignal(c))
    /\ WF_vars(ReaderClose(c))
    /\ WF_vars(ProcEnd(c))
    /\ WF_vars(ProcHandshake(c) \/ ProcHandshakeAck(c) \/ ProcHeartbeat(c)
               \/ ProcInvalid(c) \/ ProcDataUndecoded(c) \/ ProcDataDropped(c)
               \/ ProcDataInvoke(c) \/ ProcDataCall(c))
    /\ WF_vars(HandlerReturn(c))
    /\ WF_vars(CallReturn(c))

FairSpec == FairInit /\ [][Next]_vars /\ Fairness

\* C8: cancellation terminates both tasks: after conn.Read has failed (the
\* reader has closed packetChan), the reader signals endChan, closes the agent
\* and leaves its loop, and the processor leaves its loop too.
C8_CancellationTerminates ==
  \A c \in Conns :
    chanClosed[c] ~> (rpc[c] = "done" /\ ppc[c] = "done" /\ closeCalls[c] >= 1
                        /\ endChan[c] = 0)

C8_Witness ==
  \E c \in Conns :
    /\ chanClosed[c] /\ rpc[c] = "done" /\ ppc[c] = "done"
    /\ handled[c] # <<>>

\* the step is the return of a handler of connection c by a panic
PanicStep(c) ==
  /\ ppc[c] = "handler"
  /\ events'[c] # events[c]
  /\ events'[c][Len(events'[c])].kind = "panic"

\* C9: handler panic isolation: a panic of a handler of connection c does not
\* end the process; the processor of c goes on to its select with its queue and
\* its agent as they were, and nothing of another connection changes.
C9_PanicIsolation ==
  [][\A c \in Conns :
       PanicStep(c) =>
         /\ ~crashed'
         /\ ppc'[c] = "select"
         /\ packetChan'[c] = packetChan[c]
         /\ status'[c] = status[c]
         /\ lastID'[c] = lastID[c]
         /\ \A d \in Conns \ {c} :
              /\ ppc'[d] = ppc[d] /\ rpc'[d] = rpc[d]
              /\ packetChan'[d] = packetChan[d] /\ status'[d] = status[d]
              /\ events'[d] = events[d] /\ handled'[d] = handled[d]]_vars

C9_Witness ==
  \E c \in Conns :
    \E i, j \in DOMAIN events[c] :
      /\ i < j
      /\ events[c][i].kind = "panic"
      /\ events[c][j].kind = "ok"

\* the step is processMessage of connection c failing to dispatch a message of
\* type t
DispatchErrorStep(c, t) ==
  /\ Processing(c, Data)
  /\ ppc'[c] # ppc[c]
  /\ MessageDecode(cur[c].Data).err = ""
  /\ MessageDecode(cur[c].Data).m.Type = t
  /\ Dispatch(serviceMap, MessageDecode(cur[c].Data).m)
       \in {"badroute", "notfound", "badrequest"}

\* bytes are a Data packet holding a Response message with this id
IsResponseTo(bytes, id) ==
  LET u == Unpack(bytes)
  IN  /\ u.err = "" /\ u.p # NilPacket /\ u.p.Type = Data
      /\ MessageDecode(u.p.Data).err = ""
      /\ MessageDecode(u.p.Data).m.Type = Response
      /\ MessageDecode(u.p.Data).m.ID = id

\* C10: dispatch errors are answered per message: a Request that fails with
\* BadRoute, NotFound or BadRequest has a Response carrying its id sent on the
\* agent, a Notify that fails so has nothing sent, and in both cases the agent
\* is not closed.
C10_DispatchErrorsAnswered ==
  [][\A c \in Conns :
       /\ DispatchErrorStep(c, Request) =>
            /\ Len(outbox'[c]) = Len(outbox[c]) + 1
            /\ IsResponseTo(outbox'[c][Len(outbox'[c])], MessageDecode(cur[c].Data).m.ID)
            /\ status'[c] = status[c]
       /\ DispatchErrorStep(c, Notify) =>
            /\ outbox'[c] = outbox[c]
            /\ status'[c] = status[c]]_vars

\* the kind of the event the step appends to the log of connection c
NewEventKind(c) == events'[c][Len(events'[c])].kind

\* the step is processMessage of connection c taking up a decoded message
MessageStep(c) ==
  /\ Processing(c, Data)
  /\ ppc'[c] # ppc[c]
  /\ MessageDecode(cur[c].Data).err = ""

\* the message processMessage of connection c is working on
CurMessage(c) == MessageDecode(cur[c].Data).m

\* the step is the return of cluster.Call to remoteProcess of connection c
CallReturnStep(c) == ppc[c] = "call" /\ ppc'[c] # "call"

\* C11: remote reply: a Request forwarded by remoteProcess makes one cluster
\* Call, and when the Call returns, with a reply or with an error, a Response
\* message with the request's id (session.LastID) is sent on the agent of the
\* session.
C11_RemoteReply ==
  [][\A c \in Conns :
       /\ (MessageStep(c) /\ DispatchOf(serviceMap, cur[c]) = "call")
            => /\ ppc'[c] = "call"
               /\ events'[c] = Append(events[c], Event("call", CurMessage(c)))
       /\ (CallReturnStep(c) /\ CurMessage(c).Type = Request)
            => /\ Len(outbox'[c]) = Len(outbox[c]) + 1
               /\ IsResponseTo(outbox'[c][Len(outbox'[c])], lastID[c])]_vars

\* the route names this node: no server type, or the node's configured type
IsLocalRoute(r) == r.ServerType = "" \/ r.ServerType = appConfigType

\* the step is processMessage of connection c routing a Request or a Notify
\* whose route decodes
RoutingStep(c) ==
  /\ MessageStep(c)
  /\ CurMessage(c).Type \in {Request, Notify}
  /\ RouteDecode(CurMessage(c).Route).err = ""

\* C12: routing: a Request or Notify with a decodable route goes to exactly one
\* of localProcess and remoteProcess: to localProcess if and only if the
\* route's server type is empty or the node's configured type.
C12_Routing ==
  [][\A c \in Conns :
       RoutingStep(c) =>
         /\ Len(events'[c]) = Len(events[c]) + 1
         /\ active'[c] <= active[c] + 1
         /\ IF IsLocalRoute(RouteDecode(CurMessage(c).Route).r)
            THEN /\ NewEventKind(c) \in {"notfound", "badrequest", "invoke"}
                 /\ ppc'[c] # "call"
            ELSE /\ NewEventKind(c) = "call"
                 /\ ppc'[c] = "call"]_vars

C12_Witness ==
  \E c \in Conns :
    \E i, j \in DOMAIN events[c] :
      /\ events[c][i].kind = "invoke"
      /\ events[c][i].route = <<"connector", "Echo", "Say">>
      /\ events[c][j].kind = "call"
      /\ events[c][j].route = <<"chat", "Room", "Join">>

\* C13: LastID tracking: processMessage sets session.LastID to the id of a
\* Request, whatever becomes of its routing, and to 0 on a Notify; a Response
\* or a Push is rejected: session.LastID stays and neither a handler nor a
\* cluster Call is started.  A handler or Call that returns leaves it alone.
C13_LastIDTracking ==
  [][\A c \in Conns :
       /\ MessageStep(c) =>
            /\ CurMessage(c).Type = Request => lastID'[c] = CurMessage(c).ID
            /\ CurMessage(c).Type = Notify => lastID'[c] = 0
            /\ CurMessage(c).Type \in {Response, Push} =>
                 /\ lastID'[c] = lastID[c]
                 /\ active'[c] = active[c]
                 /\ ppc'[c] = "select"
                 /\ NewEventKind(c) = "reject"
       /\ ppc[c] \in {"handler", "call"} => lastID'[c] = lastID[c]]_vars

C13_Witness ==
  \E c \in Conns :
    /\ Len(handled[c]) = 2
    /\ ppc[c] = "select"
    /\ handled[c][1] = ReqNopeNone
    /\ handled[c][2] = NotifyEchoSay
    /\ lastID[c] = 0

\* the step is a Register call
RegisterStep == Len(registered') = Len(registered) + 1

\* the component has one of the four defects Register refuses
Refused(sm, rcvr) ==
  \/ rcvr.name = ""
  \/ SubSeq(rcvr.name, 1, 1) \notin UpperCase
  \/ rcvr.name \in DOMAIN sm
  \/ DOMAIN rcvr.methods = {}

\* the Register calls that installed a service under this name
Installs(name) ==
  {i \in DOMAIN registered : registered[i].name = name /\ registered[i].err = ""}

\* C14: Register returns an error, and leaves the service map as it is, when
\* the component's type name is empty, is not exported, is in the service map
\* already, or has no suitable handler method; otherwise it returns nil and
\* installs the service under its type name.  So no name is installed twice.
C14_Register ==
  /\ [][RegisterStep =>
          LET rcvr == Head(pending)
              res == registered'[Len(registered')]
          IN  /\ res.name = rcvr.name
              /\ IF Refused(serviceMap, rcvr)
                 THEN res.err # "" /\ serviceMap' = serviceMap
                 ELSE /\ res.err = ""
                      /\ DOMAIN serviceMap' = DOMAIN serviceMap \cup {rcvr.name}
                      /\ serviceMap'[rcvr.name] = rcvr.methods
                      /\ \A s \in DOMAIN serviceMap : serviceMap'[s] = serviceMap[s]]_vars
  /\ [](\A i \in DOMAIN registered : Cardinality(Installs(registered[i].name)) <= 1)

C14_Witness ==
  \E i, j \in DOMAIN registered :
    /\ i < j
    /\ registered[i].name = registered[j].name
    /\ registered[i].err = ""
    /\ registered[j].err = "already defined"
    /\ \E k \in DOMAIN registered : registered[k].err = "not exported"

\* the step is the reader of connection c meeting an Unpack error
UnpackErrorStep(c) ==
  /\ rpc[c] = "decode"
  /\ rpc'[c] # rpc[c]
  /\ Unpack(tmp[c]).err # ""

\* the step is the reader of connection c sending a packet that ends after the
\* first n bytes of the stream
EnqueuesBeyond(c, n) ==
  /\ enq'[c] # enq[c]
  /\ enq'[c][Len(enq'[c])] # NilPacket
  /\ rdpos[c] - Len(tmp'[c]) > n

\* C15: framing errors close the connection: on an Unpack error in the reader
\* and on a Truncated Data packet in the processor the agent is closed, and no
\* packet decoded from bytes received after the error is sent on packetChan.
C15_FramingErrorsClose ==
  [][\A c \in Conns :
       /\ UnpackErrorStep(c) => status'[c] = statusClosed
       /\ (Processing(c, Data) /\ ppc'[c] # ppc[c]
             /\ MessageDecode(cur[c].Data).err = "Truncated")
            => status'[c] = statusClosed
       /\ errAt[c] >= 0 => ~EnqueuesBeyond(c, errAt[c])]_vars

\* the accumulator of c holds a complete header but not the whole body
PartialFrame(c) ==
  /\ rpc[c] = "decode"
  /\ Unpack(tmp[c]).err = ""
  /\ Unpack(tmp[c]).p = NilPacket

\* C16: partial frame handling: when Unpack returns no packet and leaves the
\* buffer unchanged, the reader sends nothing on packetChan and goes back to
\* conn.Read; processPacket is never called with an absent packet.
C16_PartialFrame ==
  /\ [](\A c \in Conns : ppc[c] = "process" => cur[c] # NilPacket)
  /\ [][\A c \in Conns :
          PartialFrame(c) =>
            /\ enq'[c] = enq[c]
            /\ tmp'[c] = tmp[c]
            /\ (rpc'[c] = rpc[c] \/ rpc'[c] = "read")]_vars

\* C17: no packet is dropped silently: the processor does not leave its loop
\* while a packet the reader has sent on packetChan is still to be passed to
\* processPacket.
C17_NoPacketDropped ==
  \A c \in Conns : ppc[c] = "done" => handled[c] = enq[c]

\* C18: duplicate Handshake: processed in handshake, it sends the handshake
\* reply again and the status stays handshake (or the send fails and the agent
\* is closed); processed in working, it is ignored: the status stays working
\* and nothing is sent.
C18_DuplicateHandshake ==
  [][\A c \in Conns :
       (Processing(c, Handshake) /\ ppc'[c] # ppc[c]) =>
         /\ status[c] = statusHandshake =>
              \/ /\ status'[c] = statusHandshake
                 /\ outbox'[c] =
                      Append(outbox[c], Pack(Packet(Handshake, HandshakeReply)).bytes)
              \/ /\ status'[c] = statusClosed
                 /\ outbox'[c] = outbox[c]
         /\ status[c] = statusWorking =>
              /\ status'[c] = statusWorking
              /\ outbox'[c] = outbox[c]]_vars

\* the step ends processPacket of connection c on a Data packet
DataDoneStep(c) ==
  /\ Processing(c, Data) \/ ppc[c] \in {"handler", "call"}
  /\ ppc'[c] = "select"

\* C19: data traffic refreshes liveness: processPacket starts the agent's
\* heartbeat() for every Data packet as it does for a Heartbeat packet, whether
\* the message decodes or not, is accepted or rejected, and whether its handler
\* succeeds or panics.
C19_DataRefreshesLiveness ==
  [][\A c \in Conns :
       (DataDoneStep(c) \/ (Processing(c, Heartbeat) /\ ppc'[c] = "select"))
         => hbCalls'[c] = hbCalls[c] + 1]_vars

\* C20: channel discipline: once the reader of a connection has closed
\* packetChan it is past its loop, where it neither closes the channel again
\* nor sends on it; the channel stays closed and nothing more is sent.
C20_ChannelDiscipline ==
  /\ [](\A c \in Conns : chanClosed[c] => rpc[c] \in {"signal", "agentclose", "done"})
  /\ [][\A c \in Conns :
          chanClosed[c] => chanClosed'[c] /\ enq'[c] = enq[c]]_vars

C20_Witness ==
  \E c \in Conns :
    /\ chanClosed[c]
    /\ rpc[c] = "done"
    /\ enq[c] # <<>>
    /\ \E i \in DOMAIN stream[c] : stream[c][i] = BadTypeFrame
    /\ rdpos[c] = Len(wire(c))
    /\ closeCalls[c] >= 2

====
